---- MODULE Spec2Model ----
(***************************************************************************)
(* Scheduling and process supervision of hnh-scheduler.                    *)
(*                                                                         *)
(* The arbiter is the Scheduler class (services/scheduler.ts), the         *)
(* supervisor is the ProcessManager class (services/process-manager.ts)    *)
(* and the host is the wiring of the two in app.ts and ipc.ts.             *)
(*                                                                         *)
(* Node runs one handler at a time to completion, so every action below    *)
(* is one whole handler, together with the listeners that the handler's    *)
(* emit() calls run synchronously.  An await splits a listener in two      *)
(* actions.                                                                *)
(***************************************************************************)
EXTENDS Integers, Sequences, FiniteSets, Bags, TLC

(* ------------------------------ bounds -------------------------------- *)

\* Runs (requested, spawned or waiting for the ledger) tracked at one time.
MaxRuns == 4

\* Longest resource queue explored.
MaxQueue == 2

(* --------------------------- configuration ---------------------------- *)

\* getGlobalConcurrencyLimit(): the hard-wired default.
GlobalConcurrencyLimit == 3

\* The schedules handed to registerSchedules.  concurrencyLimit is optional
\* in the Schedule type; 0 stands for "not declared" (the code tests it for
\* truthiness, so 0 and undefined behave alike).
Schedules ==
  [ s1 |-> [id |-> "s1", concurrencyLimit |-> 1],
    s2 |-> [id |-> "s2", concurrencyLimit |-> 0] ]

ScheduleIds == DOMAIN Schedules

Characters == {"c1", "c2"}

OverlapPolicies == {"skip", "queue", "kill-previous"}

\* The schedule entries.  Entry ids and run ids are both opaque strings in
\* the program; here entry ids are 1..Len(Entries) and run ids are integers
\* above them (RunIdOf), so the two kinds of id are distinct values that can
\* be compared with each other, as in the program.
Entries ==
  << [id |-> 1, scheduleId |-> "s1", characterId |-> "c1", overlapPolicy |-> "queue"],
     [id |-> 2, scheduleId |-> "s1", characterId |-> "c2", overlapPolicy |-> "skip"],
     [id |-> 3, scheduleId |-> "s2", characterId |-> "c1", overlapPolicy |-> "kill-previous"] >>

EntryIds == DOMAIN Entries

\* The ids as the strings they are in the program, character by character.
\* validateSchedule asks of an id only that it is not blank; the ids the
\* editor generates are UUIDs, which contain "-" too.
ScheduleIdText == [ s1 |-> << "a" >>, s2 |-> << "a", "-", "b" >> ]

EntryIdText ==
  << << "x" >>, << "b", "-", "c" >>, << "c" >>, << "y" >>, << "z" >>, << "w" >> >>

\* The absent value of a Map lookup (undefined).
NoId == 0

\* The entries the skip API is called for.
SkipEntryIds == {2}

EntriesOf(scheduleId) == { e \in EntryIds : Entries[e].scheduleId = scheduleId }

(* ------------------------------- state -------------------------------- *)

VARIABLES
  jobs,               \* Scheduler.jobs: the entry ids that have a job (and a timer)
  characterLocks,     \* Scheduler.characterLocks: characterId -> id, NoId when absent
  characterQueues,    \* Scheduler.characterQueues: characterId -> sequence of QueuedRun
  scheduleRunCounts,  \* Scheduler.scheduleRunCounts: scheduleId -> count, 0 when absent
  skippedRuns,        \* Scheduler.skippedRuns: set of skip keys
  runs,               \* the runs the arbiter requested, from run:requested to
                      \* onRunCompleted: a bag of Run records
  activeRuns,         \* ProcessManager.activeRuns: run id -> ProcessRun (present or not)
  timers,             \* the pending timers of the event loop (setTimeout handles)
  processes,          \* the child process of each run id: none, running or gone
                      \* (failed: spawn threw, there never was a process)
  configFiles,        \* the run ids whose bot_config-<runId>.json exists in the
                      \* temporary directory
  now,                \* the clock (Date): milliseconds where the supervisor is
                      \* followed (SpecSup), minutes where the trigger engine is
                      \* (SpecEng)
  history,            \* per run id, what the supervisor did and reported so far
  scheduledJobs,      \* the values of Scheduler.jobs: entry id -> ScheduledJob
  engine              \* what the trigger engine did so far: the calls of
                      \* registerSchedules, and the history of every entry

\* The supervisor in detail (SpecSup); the arbiter's specifications leave it
\* idle and follow a run by its stage in runs only.
supVars == << activeRuns, timers, processes, configFiles, now, history >>

\* The trigger engine in detail (SpecEng); the other specifications follow
\* the keys of Scheduler.jobs only (jobs).
engVars == << scheduledJobs, engine >>

vars == << jobs, characterLocks, characterQueues, scheduleRunCounts, skippedRuns, runs,
           activeRuns, timers, processes, configFiles, now, history, scheduledJobs,
           engine >>

\* A run between the arbiter's startRun and the host's onRunCompleted.
\*   st = "requested": run:requested was emitted, the host's listener waits
\*                     for the credentials (ProcessManager.startRun, first await);
\*   st = "active":    the process is spawned, the run is in activeRuns;
\*   st = "exited":    run:exit was emitted, the host waits for appendRecord;
\*   st = "recorded":  appendFile has written the record to the ledger, the
\*                     rest of the run:exit listener has not run yet.
\* displaced is history: a kill-previous trigger fired on the run's character
\* while the run was live.
\* Runs that agree on entry, stage and mark are interchangeable, so the runs
\* are kept as a bag of such records rather than as a map keyed by uuid.
RunStates == {"requested", "active", "exited", "recorded"}

Run(entryId, st, displaced) == [entryId |-> entryId, st |-> st, displaced |-> displaced]

StateIndex(st) ==
  CASE st = "requested" -> 0 [] st = "active" -> 1 [] st = "exited" -> 2 [] st = "recorded" -> 3

\* The run id (uuidv4() of ProcessManager.startRun) of a run: a value that no
\* entry id equals.  Interchangeable runs share it.
RunIdOf(r) ==
  Len(Entries) + 1 + 2 * (Cardinality(RunStates) * (r.entryId - 1) + StateIndex(r.st))
    + (IF r.displaced THEN 1 ELSE 0)

\* The keys of ProcessManager.activeRuns.
ActiveRunIds(rs) == { RunIdOf(r) : r \in { x \in BagToSet(rs) : x.st = "active" } }

AddRun(rs, r) == rs (+) SetToBag({r})

RemoveRun(rs, r) == rs (-) SetToBag({r})

Event(name, id, reason) == [name |-> name, id |-> id, reason |-> reason]

\* The state as one value, threaded through the methods of a handler, with
\* what the handler does to the outside: the events it emits, in order, and
\* the run ids whose process is sent SIGINT.  faulty says that the listener
\* of the next event emitted throws, thrown that an exception is on its way
\* up the call stack.
Cur ==
  [ jobs |-> jobs,
    characterLocks |-> characterLocks,
    characterQueues |-> characterQueues,
    scheduleRunCounts |-> scheduleRunCounts,
    skippedRuns |-> skippedRuns,
    runs |-> runs,
    emitted |-> << >>,
    signalled |-> {},
    faulty |-> FALSE,
    thrown |-> FALSE ]

\* The end of a handler: the threaded state becomes the next state.  The two
\* guards keep the explored state space finite.
Commit(a) ==
  /\ BagCardinality(a.runs) <= MaxRuns
  /\ \A c \in Characters : Len(a.characterQueues[c]) <= MaxQueue
  /\ jobs' = a.jobs
  /\ characterLocks' = a.characterLocks
  /\ characterQueues' = a.characterQueues
  /\ scheduleRunCounts' = a.scheduleRunCounts
  /\ skippedRuns' = a.skippedRuns
  /\ runs' = a.runs
  /\ UNCHANGED << supVars, engVars >>

(* ---------------------- the supervisor's state ------------------------ *)

\* The run id (uuidv4) of the run followed in SpecSup.  Every method of the
\* supervisor reads and writes the ProcessRun of the one run id it is called
\* for, and a timer's callback that of the run it was armed for.
SupRunIds == {1}

\* maxDurationMs of the entries whose runs are started.
DurationsMs == {5000, 20000}

\* The delay of the hard kill after the graceful signal.
ForceKillDelayMs == 10000

\* A timer handle: what setTimeout returns.  kind names the callback:
\*   "timeout"        the callback of setupTimeout,
\*   "timeout-force"  the callback it arms (forceKillProcess, run:timeout force),
\*   "stop-force"     the callback stopRun arms (forceKillProcess if still active).
Timer(kind, runId, due) == [kind |-> kind, runId |-> runId, due |-> due]

\* An unset handle (undefined).
NoTimer == Timer("none", 0, 0)

\* No time recorded.
NoTime == 0 - 1

\* The most lines a run's log buffer keeps.
MAX_LOG_BUFFER_LINES == 1000

\* A ProcessRun; present is FALSE for a run id that activeRuns does not hold.
\* logBuffer starts empty; an entry of it is the arrival number of its line
\* among the lines that were kept (in the place of its text and timestamp).
ProcessRun(present, startedAt, maxDurationMs, timeout, gracefulTimeout) ==
  [ present |-> present, startedAt |-> startedAt, maxDurationMs |-> maxDurationMs,
    timeout |-> timeout, gracefulTimeout |-> gracefulTimeout, logBuffer |-> << >> ]

NoRun == ProcessRun(FALSE, 0, 0, NoTimer, NoTimer)

\* The exit code of a process that a signal terminated (null).
NoCode == 256

ExitCodes == {0, 1}

\* The signal of a process that exited by itself (null).
NoSignal == "none"

Signals == {"SIGINT", "SIGKILL", "SIGTERM", "SIGSEGV"}

\* What is remembered of a run id:
\*   terminals, exits  how many terminal events (run:exit or run:error), and
\*                     how many run:exit events, were emitted for it;
\*   errors            how many error notifications its process delivered;
\*   removed           how many times it was removed from activeRuns;
\*   status, code, signal, durationMs, maxDurationMs
\*                     the RunRecord of its terminal event and the limit;
\*   startedAt         when it was started;
\*   timeoutSigintAt, timeoutKillAt
\*                     when the timeout path sent SIGINT and the hard kill;
\*   firstSigintAt, firstKillAt
\*                     when the first graceful signal and the first hard
\*                     kill were sent, by either path;
\*   stopped           a stop request reached it while it was active;
\*   late              a signal was sent after its terminal event;
\*   stopThrew         a stop request for it threw;
\*   logged            how many lines were pushed to its log buffer.
NoHistory ==
  [ terminals |-> 0, exits |-> 0, errors |-> 0, removed |-> 0,
    status |-> "none", code |-> NoCode, signal |-> NoSignal,
    durationMs |-> 0, maxDurationMs |-> 0, startedAt |-> NoTime,
    timeoutSigintAt |-> NoTime, timeoutKillAt |-> NoTime,
    firstSigintAt |-> NoTime, firstKillAt |-> NoTime,
    stopped |-> FALSE, late |-> FALSE, stopThrew |-> FALSE, logged |-> 0 ]

SupIdle ==
  /\ activeRuns = [id \in SupRunIds |-> NoRun]
  /\ timers = {}
  /\ processes = [id \in SupRunIds |-> "none"]
  /\ configFiles = {}
  /\ now = 0
  /\ history = [id \in SupRunIds |-> NoHistory]

(* --------------------- the trigger engine's state --------------------- *)

\* A Cadence: cron (expression), every (unit, n, startTimeISO) or once
\* (atISO).  Times are minutes of the engine's clock; NoTime and "" stand for
\* the fields a cadence does not have.
Cadence(type, expression, unit, n, startTimeISO, atISO) ==
  [ type |-> type, expression |-> expression, unit |-> unit, n |-> n,
    startTimeISO |-> startTimeISO, atISO |-> atISO ]

\* The cron expression used ("0 * * * *": every full hour) and its period.
HourlyExpression == "0 * * * *"

CronPeriod == 60

\* The schedule entries handed to registerSchedules where the engine is
\* followed.  Entries 1 and 2 are two entries with one id; entry 7 has its
\* anchor weeks ahead.
TimedEntries ==
  << [id |-> 1, scheduleId |-> "s2", characterId |-> "c2", overlapPolicy |-> "skip",
      cadence |-> Cadence("every", "", "minutes", 60, 30, NoTime)],
     [id |-> 1, scheduleId |-> "s2", characterId |-> "c2", overlapPolicy |-> "skip",
      cadence |-> Cadence("every", "", "hours", 1, NoTime, NoTime)],
     [id |-> 2, scheduleId |-> "s1", characterId |-> "c1", overlapPolicy |-> "skip",
      cadence |-> Cadence("once", "", "", 0, NoTime, 45)],
     [id |-> 3, scheduleId |-> "s2", characterId |-> "c2", overlapPolicy |-> "skip",
      cadence |-> Cadence("cron", HourlyExpression, "", 0, NoTime, NoTime)],
     [id |-> 4, scheduleId |-> "s1", characterId |-> "c1", overlapPolicy |-> "skip",
      cadence |-> Cadence("cron", "61 * * * *", "", 0, NoTime, NoTime)],
     [id |-> 5, scheduleId |-> "s1", characterId |-> "c1", overlapPolicy |-> "skip",
      cadence |-> Cadence("weekly", "", "", 0, NoTime, NoTime)],
     [id |-> 6, scheduleId |-> "s2", characterId |-> "c2", overlapPolicy |-> "skip",
      cadence |-> Cadence("every", "", "minutes", 60, 36000, NoTime)] >>

TimedEntryIds == { TimedEntries[k].id : k \in DOMAIN TimedEntries }

\* schedule.entries, in order, of the schedules handed to registerSchedules.
EntriesInOrder == [ s1 |-> << 5, 3, 6 >>, s2 |-> << 1, 2, 4, 7 >> ]

\* The schedules array, in order.
SchedulesInOrder == << "s1", "s2" >>

\* The sets of entries that are enabled in a call of registerSchedules.
EnabledEntrySets == { {}, {1}, {1, 2}, {3, 4, 5, 6}, {7} }

\* The handle of a job's timer.  kind names what armed it:
\*   "cron"        cron.schedule (a ScheduledTask, until stop()),
\*   "first-fire"  the setTimeout of an interval with a start time,
\*   "interval"    setInterval,
\*   "once"        the setTimeout of a one-shot entry.
\* entry is the entry (its place in TimedEntries) whose trigger it fires, due
\* its next expiry, period the distance of its expiries (0: it expires once).
\* old is history: the timer outlived a later call of registerSchedules.
JobTimer(kind, entry, due, period, old) ==
  [kind |-> kind, entry |-> entry, due |-> due, period |-> period, old |-> old]

\* What a ScheduledJob keeps of its timer (job.job): the reference to it.
\* old is that of the timer when the reference was taken.
JobHandle(kind, entry, old) == [kind |-> kind, entry |-> entry, old |-> old]

NoJobHandle == JobHandle("none", 0, FALSE)

\* A ScheduledJob; present is FALSE for an id that Scheduler.jobs does not hold.
ScheduledJob(present, entry, job, type, nextRunAt) ==
  [present |-> present, entry |-> entry, job |-> job, type |-> type, nextRunAt |-> nextRunAt]

NoJob == ScheduledJob(FALSE, 0, NoJobHandle, "none", NoTime)

\* What is remembered of an entry:
\*   regAt         when the last registerSchedules armed it (NoTime: it did not);
\*   fires         how many times it triggered since;
\*   firstFireAt, prevFireAt, lastFireAt
\*                 when it triggered first, last but one and last since;
\*   stale         a timer armed by an earlier registerSchedules triggered it;
\*   unarmed       it triggered while no timer was armed for its next fire;
\*   uncaught      an exception of its trigger reached the timer's callback.
NoLog ==
  [ regAt |-> NoTime, fires |-> 0, firstFireAt |-> NoTime, prevFireAt |-> NoTime,
    lastFireAt |-> NoTime, stale |-> FALSE, unarmed |-> FALSE, uncaught |-> FALSE ]

EngIdle ==
  /\ scheduledJobs = [id \in TimedEntryIds |-> NoJob]
  /\ engine = [registrations |-> 0, entries |-> [k \in DOMAIN TimedEntries |-> NoLog]]

Init ==
  /\ SupIdle
  /\ EngIdle
  /\ jobs = {}
  /\ characterLocks = [c \in Characters |-> NoId]
  /\ characterQueues = [c \in Characters |-> << >>]
  /\ scheduleRunCounts = [s \in ScheduleIds |-> 0]
  /\ skippedRuns = {}
  /\ runs = EmptyBag

(* ------------------------ the host's listeners ------------------------ *)

\* ProcessManager.stopRun(runId), called by the listener of run:kill-requested:
\* a run that is not in activeRuns makes it throw, and the listener catches
\* and logs the error; otherwise the process is sent SIGINT.
stopRun(a, runId) ==
  IF runId \in ActiveRunIds(a.runs)
    THEN [a EXCEPT !.signalled = @ \cup {runId}]
    ELSE a

\* The listener of run:requested (IPCManager.setupEventForwarding): up to its
\* first await it only looks up the scenario and the character; the run is
\* now in flight towards the supervisor.
onRunRequested(a, entryId) ==
  IF a.thrown THEN a
  ELSE [a EXCEPT !.runs = AddRun(@, Run(entryId, "requested", FALSE))]

\* The listener of run:kill-requested: await processManager.stopRun(data.runId)
\* inside try/catch; stopRun has no await, so it runs inside the emit.
onKillRequested(a, runId) == IF a.thrown THEN a ELSE stopRun(a, runId)

(* ----------------------------- the arbiter ---------------------------- *)

\* emit calls the listeners one after the other, in the caller's stack: a
\* listener that throws makes emit throw, and the listeners after it are not
\* called.  The listeners of run:requested and run:kill-requested above are
\* async functions and do not throw; the listeners registered before them
\* (the tray menu's, webContents.send) are not.
emit(a, ev) ==
  IF a.thrown THEN a
  ELSE IF a.faulty THEN [a EXCEPT !.emitted = Append(@, ev), !.faulty = FALSE, !.thrown = TRUE]
  ELSE [a EXCEPT !.emitted = Append(@, ev)]

getGlobalConcurrencyLimit == GlobalConcurrencyLimit

RECURSIVE SumCounts(_, _)
SumCounts(counts, ids) ==
  IF ids = {} THEN 0
  ELSE LET s == CHOOSE x \in ids : TRUE
       IN  counts[s] + SumCounts(counts, ids \ {s})

getTotalActiveRuns(a) == SumCounts(a.scheduleRunCounts, ScheduleIds)

\* The template literal `${scheduleId}-${entryId}`.
SkipKey(scheduleId, entryId) ==
  ScheduleIdText[scheduleId] \o << "-" >> \o EntryIdText[entryId]

isRunSkipped(a, scheduleId, entryId) == SkipKey(scheduleId, entryId) \in a.skippedRuns

setRunSkipped(a, scheduleId, entryId) ==
  [a EXCEPT !.skippedRuns = @ \cup {SkipKey(scheduleId, entryId)}]

clearRunSkipped(a, scheduleId, entryId) ==
  [a EXCEPT !.skippedRuns = @ \ {SkipKey(scheduleId, entryId)}]

startRun(a, scheduleId, entry) ==
  LET b == [a EXCEPT !.characterLocks[entry.characterId] = entry.id,
                     !.scheduleRunCounts[scheduleId] = @ + 1]
  IN  IF a.thrown THEN a
      ELSE onRunRequested(emit(b, Event("run:requested", entry.id, "")), entry.id)

queueRun(a, entry) ==
  LET b == [a EXCEPT !.characterQueues[entry.characterId] =
                        Append(@, [entryId |-> entry.id, characterId |-> entry.characterId])]
  IN  emit(b, Event("run:queued", entry.id, ""))

RECURSIVE MarkAll(_, _, _)
MarkAll(rs, todo, characterId) ==
  IF todo = {} THEN rs
  ELSE LET r == CHOOSE x \in todo : TRUE
           n == CopiesIn(r, rs)
           moved == (rs (-) [x \in {r} |-> n]) (+) [x \in {[r EXCEPT !.displaced = TRUE]} |-> n]
       IN  MarkAll(moved, todo \ {r}, characterId)

Displace(rs, characterId) ==
  MarkAll(rs, { r \in BagToSet(rs) :
                  Entries[r.entryId].characterId = characterId /\ ~r.displaced }, characterId)

\* The runs live on the character when the kill-previous trigger fires are
\* marked displaced (history only: the code keeps no such mark).
killPreviousRun(a, characterId) ==
  LET currentRunId == a.characterLocks[characterId]
      b == [a EXCEPT !.runs = Displace(@, characterId)]
  IN  IF currentRunId # NoId
        THEN onKillRequested(emit(b, Event("run:kill-requested", currentRunId, "overlap-policy")),
                             currentRunId)
        ELSE b

\* handleCharacterOverlap with the break of the skip case missing: the switch
\* falls through to the queue case.
handleCharacterOverlapSkipQueues(a, schedule, entry) ==
  CASE entry.overlapPolicy = "skip" ->
         queueRun(emit(a, Event("run:skipped", entry.id, "character-busy")), entry)
    [] entry.overlapPolicy = "queue" -> queueRun(a, entry)
    [] entry.overlapPolicy = "kill-previous" ->
         startRun(killPreviousRun(a, entry.characterId), schedule.id, entry)
    [] OTHER -> a

\* handleCharacterOverlap with the break of the queue case missing: the
\* switch falls through to the kill-previous case.
handleCharacterOverlapFallThrough(a, schedule, entry) ==
  CASE entry.overlapPolicy = "skip" ->
         emit(a, Event("run:skipped", entry.id, "character-busy"))
    [] entry.overlapPolicy = "queue" ->
         startRun(killPreviousRun(queueRun(a, entry), entry.characterId), schedule.id, entry)
    [] entry.overlapPolicy = "kill-previous" ->
         startRun(killPreviousRun(a, entry.characterId), schedule.id, entry)
    [] OTHER -> a

handleCharacterOverlap(a, schedule, entry) ==
  CASE entry.overlapPolicy = "skip" ->
         emit(a, Event("run:skipped", entry.id, "character-busy"))
    [] entry.overlapPolicy = "queue" ->
         queueRun(a, entry)
    [] entry.overlapPolicy = "kill-previous" ->
         startRun(killPreviousRun(a, entry.characterId), schedule.id, entry)
    [] OTHER -> a

handleScheduleOverlap(a, schedule, entry) == queueRun(a, entry)

\* handleTrigger with the character lock tested before the two ceilings.
handleTriggerLockFirst(a, schedule, entry) ==
  IF isRunSkipped(a, schedule.id, entry.id)
    THEN [emit(a, Event("run:skipped", entry.id, "manual-skip"))
            EXCEPT !.skippedRuns = @ \ {SkipKey(schedule.id, entry.id)}]
  ELSE IF a.characterLocks[entry.characterId] # NoId
    THEN handleCharacterOverlap(a, schedule, entry)
  ELSE IF getTotalActiveRuns(a) >= getGlobalConcurrencyLimit
    THEN queueRun(a, entry)
  ELSE IF schedule.concurrencyLimit # 0
          /\ a.scheduleRunCounts[schedule.id] >= schedule.concurrencyLimit
    THEN handleScheduleOverlap(a, schedule, entry)
  ELSE startRun(a, schedule.id, entry)

\* The admission chain of handleTrigger: the body of its try block.
admit(a, schedule, entry) ==
  IF getTotalActiveRuns(a) >= getGlobalConcurrencyLimit
    THEN queueRun(a, entry)
  ELSE IF schedule.concurrencyLimit # 0
          /\ a.scheduleRunCounts[schedule.id] >= schedule.concurrencyLimit
    THEN handleScheduleOverlap(a, schedule, entry)
  ELSE IF a.characterLocks[entry.characterId] # NoId
    THEN handleCharacterOverlap(a, schedule, entry)
  ELSE startRun(a, schedule.id, entry)

\* try { ... } catch (error) { emit('trigger:error') }.
catchTriggerError(b, entry) ==
  IF b.thrown
    THEN emit([b EXCEPT !.thrown = FALSE], Event("trigger:error", entry.id, ""))
    ELSE b

\* handleTrigger from the manual-skip step on (the lines before it keep the
\* job's lastRunAt and nextRunAt: trackTrigger).  The manual-skip step is
\* outside the try block.
handleTrigger(a, schedule, entry) ==
  IF isRunSkipped(a, schedule.id, entry.id)
    THEN LET b == emit(a, Event("run:skipped", entry.id, "manual-skip"))
         IN  IF b.thrown THEN b
             ELSE [b EXCEPT !.skippedRuns = @ \ {SkipKey(schedule.id, entry.id)}]
  ELSE catchTriggerError(admit(a, schedule, entry), entry)

\* processCharacterQueue taking the newest queued run (pop) instead of the
\* oldest (shift).
processCharacterQueuePop(a, characterId) ==
  LET queue == a.characterQueues[characterId]
  IN  IF queue = << >> THEN a
      ELSE LET nextRun == queue[Len(queue)]
               b == [a EXCEPT !.characterQueues[characterId] = SubSeq(queue, 1, Len(queue) - 1)]
           IN  IF nextRun.entryId \in a.jobs
                 THEN IF getTotalActiveRuns(b) >= getGlobalConcurrencyLimit
                        THEN [b EXCEPT !.characterQueues[characterId] = << nextRun >> \o @]
                        ELSE LET entry == Entries[nextRun.entryId]
                             IN  startRun(b, entry.scheduleId, entry)
                 ELSE b

processCharacterQueue(a, characterId) ==
  LET queue == a.characterQueues[characterId]
  IN  IF queue = << >> THEN a
      ELSE LET nextRun == Head(queue)
               b == [a EXCEPT !.characterQueues[characterId] = Tail(queue)]
           IN  IF nextRun.entryId \in a.jobs
                 THEN IF getTotalActiveRuns(b) >= getGlobalConcurrencyLimit
                        THEN [b EXCEPT !.characterQueues[characterId] = << nextRun >> \o @]
                        ELSE LET entry == Entries[nextRun.entryId]
                             IN  startRun(b, entry.scheduleId, entry)
                 ELSE b

\* The lock map is searched for the first character whose lock holds entryId.
\* An entry names one character, so at most one character matches.
onRunCompleted(a, runId, entryId) ==
  LET held == { c \in Characters : a.characterLocks[c] = entryId }
      b == IF held = {} THEN a
           ELSE LET characterId == CHOOSE c \in held : TRUE
                IN  processCharacterQueue([a EXCEPT !.characterLocks[characterId] = NoId],
                                          characterId)
  IN  IF b.thrown THEN b
      ELSE [b EXCEPT !.scheduleRunCounts =
              [s \in ScheduleIds |-> IF @[s] > 0 THEN @[s] - 1 ELSE @[s]]]

\* clearAllJobs that clears the lock map too.
clearAllJobsAndLocks(a) ==
  [a EXCEPT !.jobs = {}, !.scheduleRunCounts = [s \in ScheduleIds |-> 0],
            !.characterLocks = [c \in Characters |-> NoId]]

clearAllJobs(a) ==
  [a EXCEPT !.jobs = {}, !.scheduleRunCounts = [s \in ScheduleIds |-> 0]]

\* enabled is the enabled flag of every schedule; the entries themselves are
\* all enabled and well formed.
registerSchedules(a, enabled) ==
  [clearAllJobs(a) EXCEPT !.jobs = UNION { EntriesOf(s) : s \in { x \in ScheduleIds : enabled[x] } }]

(* ------------------------------- actions ------------------------------ *)

\* registerSchedules, from initialize, schedules:save and schedules:toggle.
RegisterSchedules ==
  \E enabled \in [ScheduleIds -> BOOLEAN] :
    Commit(registerSchedules(Cur, enabled))

\* clearAllJobs, from the shutdown path of the application.
ClearAllJobs == Commit(clearAllJobs(Cur))

\* The timer of a registered job fires.
Trigger(e) ==
  /\ e \in jobs
  /\ Commit(handleTrigger(Cur, Schedules[Entries[e].scheduleId], Entries[e]))

SetRunSkipped(e) == Commit(setRunSkipped(Cur, Entries[e].scheduleId, e))

ClearRunSkipped(e) == Commit(clearRunSkipped(Cur, Entries[e].scheduleId, e))

\* The rest of the run:requested listener: the credentials arrive and
\* ProcessManager.startRun spawns the process and adds the run to activeRuns.
StartRun(r) ==
  /\ r \in BagToSet(runs) /\ r.st = "requested"
  /\ Commit([Cur EXCEPT !.runs = AddRun(RemoveRun(@, r), [r EXCEPT !.st = "active"])])

\* The run:requested listener does not reach spawn: the scenario or the
\* character is not found, or ProcessManager.startRun throws for want of
\* credentials; the listener logs the exception and nothing else happens.
StartRunFails(r) ==
  /\ r \in BagToSet(runs) /\ r.st = "requested"
  /\ Commit([Cur EXCEPT !.runs = RemoveRun(@, r)])

\* The child reports exit: handleProcessExit removes the run from activeRuns
\* and emits run:exit; the host's listener starts appendRecord.
ProcessExit(r) ==
  /\ r \in BagToSet(runs) /\ r.st = "active"
  /\ Commit(emit([Cur EXCEPT !.runs = AddRun(RemoveRun(@, r), [r EXCEPT !.st = "exited"])],
                 Event("run:exit", RunIdOf(r), "")))

\* The child reports error: handleProcessError removes the run from
\* activeRuns and emits run:error, an event nothing listens to.
ProcessError(r) ==
  /\ r \in BagToSet(runs) /\ r.st = "active"
  /\ Commit(emit([Cur EXCEPT !.runs = RemoveRun(@, r)], Event("run:error", RunIdOf(r), "")))

\* RunHistory.appendRecord, awaited by the run:exit listener: the record is
\* appended to the file of its day.
AppendRecord(r) ==
  /\ r \in BagToSet(runs) /\ r.st = "exited"
  /\ Commit([Cur EXCEPT !.runs = AddRun(RemoveRun(@, r), [r EXCEPT !.st = "recorded"])])

\* appendFile fails: appendRecord throws, the listener catches and logs the
\* error and does not reach onRunCompleted.
AppendRecordFails(r) ==
  /\ r \in BagToSet(runs) /\ r.st = "exited"
  /\ Commit([Cur EXCEPT !.runs = RemoveRun(@, r)])

\* The run:exit listener calling onRunCompleted as soon as run:exit is
\* emitted, without waiting for appendRecord.
RunExitNotAwaited(r) ==
  /\ r \in BagToSet(runs) /\ r.st \in {"exited", "recorded"}
  /\ Commit(onRunCompleted([Cur EXCEPT !.runs = RemoveRun(@, r)], RunIdOf(r), r.entryId))

\* appendRecord has resolved: the run:exit listener goes on and calls
\* onRunCompleted.
RunExitRecorded(r) ==
  /\ r \in BagToSet(runs) /\ r.st = "recorded"
  /\ Commit(onRunCompleted([Cur EXCEPT !.runs = RemoveRun(@, r)], RunIdOf(r), r.entryId))

(* ---------------------- the arbiter on its own ------------------------ *)

\* Seen from the arbiter, a run it requested is either reported complete at
\* some later time, by a call of onRunCompleted(runId, entryId), or never
\* reported.  Spec makes no assumption on when: the supervisor and the host
\* are its environment, and the stage of a run is not followed.

\* The host calls onRunCompleted for a run the arbiter requested.
OnRunCompleted(r) ==
  /\ r \in BagToSet(runs)
  /\ Commit(onRunCompleted([Cur EXCEPT !.runs = RemoveRun(@, r)], RunIdOf(r), r.entryId))

\* The run ends and the host never reports it (no listener on run:error, a
\* failed start, a failed appendRecord).
RunLost(r) ==
  /\ r \in BagToSet(runs)
  /\ Commit([Cur EXCEPT !.runs = RemoveRun(@, r)])

Next ==
  \/ ClearAllJobs
  \/ RegisterSchedules
  \/ \E e \in EntryIds : Trigger(e)
  \/ \E e \in SkipEntryIds : SetRunSkipped(e)
  \/ \E e \in SkipEntryIds : ClearRunSkipped(e)
  \/ \E r \in BagToSet(runs) : OnRunCompleted(r)
  \/ \E r \in BagToSet(runs) : RunLost(r)

Spec == Init /\ [][Next]_vars

(* ------------------ the arbiter, the host and the supervisor ---------- *)

\* Runs followed through the supervisor at one time.
MaxHostRuns == 2

\* The state after HnHSchedulerApp.initialize: the schedules are registered.
InitHost ==
  /\ SupIdle
  /\ EngIdle
  /\ jobs = EntryIds
  /\ characterLocks = [c \in Characters |-> NoId]
  /\ characterQueues = [c \in Characters |-> << >>]
  /\ scheduleRunCounts = [s \in ScheduleIds |-> 0]
  /\ skippedRuns = {}
  /\ runs = EmptyBag

HostBound == BagCardinality(runs') <= MaxHostRuns

NextHost ==
  \/ \E e \in EntryIds : Trigger(e) /\ HostBound
  \/ \E r \in BagToSet(runs) : StartRun(r) /\ HostBound
  \/ \E r \in BagToSet(runs) : StartRunFails(r) /\ HostBound
  \/ \E r \in BagToSet(runs) : ProcessExit(r) /\ HostBound
  \/ \E r \in BagToSet(runs) : ProcessError(r) /\ HostBound
  \/ \E r \in BagToSet(runs) : AppendRecord(r) /\ HostBound
  \/ \E r \in BagToSet(runs) : AppendRecordFails(r) /\ HostBound
  \/ \E r \in BagToSet(runs) : RunExitRecorded(r) /\ HostBound

SpecHost == InitHost /\ [][NextHost]_vars

\* The same without the child's error: every run that is started exits, its
\* record is appended and onRunCompleted is called for it, and no schedule is
\* registered anew.  Nothing makes a timer fire again.
NextLive ==
  \/ \E e \in EntryIds : Trigger(e) /\ HostBound
  \/ \E r \in BagToSet(runs) : StartRun(r) /\ HostBound
  \/ \E r \in BagToSet(runs) : ProcessExit(r) /\ HostBound
  \/ \E r \in BagToSet(runs) : AppendRecord(r) /\ HostBound
  \/ \E r \in BagToSet(runs) : RunExitRecorded(r) /\ HostBound

AllRuns == [entryId : EntryIds, st : RunStates, displaced : BOOLEAN]

SpecLive ==
  /\ InitHost
  /\ [][NextLive]_vars
  /\ \A r \in AllRuns : WF_vars(StartRun(r) /\ HostBound)
  /\ \A r \in AllRuns : WF_vars(ProcessExit(r) /\ HostBound)
  /\ \A r \in AllRuns : WF_vars(AppendRecord(r) /\ HostBound)
  /\ \A r \in AllRuns : WF_vars(RunExitRecorded(r) /\ HostBound)

(* ====================================================================== *)
(* Properties                                                             *)
(* ====================================================================== *)

\* The number of runs of the bag rs that are of one of the kinds.
NumRuns(rs, kinds) ==
  BagCardinality([r \in BagToSet(rs) \cap kinds |-> CopiesIn(r, rs)])

CharacterOfRun(r) == Entries[r.entryId].characterId

ScheduleOfRun(r) == Entries[r.entryId].scheduleId

(* ------------------------------- C1 ----------------------------------- *)

\* C1: for every character at most one run that the arbiter started and that
\* is not yet reported complete is live, not counting the runs displaced by a
\* kill-previous trigger on that character.
C1_MutualExclusion ==
  \A c \in Characters :
    LET holders == { r \in AllRuns : CharacterOfRun(r) = c /\ ~r.displaced }
    IN  NumRuns(runs, holders) <= 1

(* ------------------------------- C2 ----------------------------------- *)

\* C2: the number of runs started by the arbiter and not yet completed never
\* exceeds the global concurrency limit.
C2_GlobalCeiling ==
  NumRuns(runs, AllRuns) <= GlobalConcurrencyLimit

(* ------------------------------- C3 ----------------------------------- *)

\* C3: for every schedule that declares a concurrencyLimit, the number of its
\* runs started and not yet completed never exceeds the limit.
C3_ScheduleCeiling ==
  \A s \in ScheduleIds :
    LET ofSchedule == { r \in AllRuns : ScheduleOfRun(r) = s }
    IN  Schedules[s].concurrencyLimit # 0 =>
          NumRuns(runs, ofSchedule) <= Schedules[s].concurrencyLimit

\* What a timer fire of entry e does in the current state.
TriggerResult(e) == handleTrigger(Cur, Schedules[Entries[e].scheduleId], Entries[e])

\* What onRunCompleted does in the current state for the run r.
CompletionResult(r) ==
  onRunCompleted([Cur EXCEPT !.runs = RemoveRun(@, r)], RunIdOf(r), r.entryId)

EventsNamed(emitted, names) ==
  LET Named(ev) == ev.name \in names
  IN  SelectSeq(emitted, Named)

GlobalCeilingReached == getTotalActiveRuns(Cur) >= GlobalConcurrencyLimit

ScheduleCeilingReached(s) ==
  /\ Schedules[s].concurrencyLimit # 0
  /\ scheduleRunCounts[s] >= Schedules[s].concurrencyLimit

(* ------------------------------- C4 ----------------------------------- *)

\* C4: a run whose process fails to spawn does not leave its character
\* locked: a character is locked by an entry only while a run of that entry
\* is requested, active or waiting for its record to be appended.
C4_SpawnFailureReleasesLock ==
  \A c \in Characters :
    characterLocks[c] # NoId =>
      \E r \in BagToSet(runs) : r.entryId = characterLocks[c]

(* ------------------------------- C5 ----------------------------------- *)

\* C5: when a kill-previous trigger fires on a locked character whose holder
\* is an active run, the kill request names an active run, the supervisor
\* sends that run SIGINT, and the new run is requested in the same handler.
C5_KillRequestReachesHolder ==
  \A e \in jobs :
    LET c == Entries[e].characterId
        a == TriggerResult(e)
        kills == EventsNamed(a.emitted, {"run:kill-requested"})
        holderActive == \E r \in BagToSet(runs) :
                           r.st = "active" /\ r.entryId = characterLocks[c]
    IN  (kills # << >> /\ holderActive) =>
          /\ kills[1].id \in ActiveRunIds(runs)
          /\ a.signalled # {}
          /\ EventsNamed(a.emitted, {"run:requested"}) # << >>

(* ------------------------------- C6 ----------------------------------- *)

\* C6: every queued run is eventually started when every started run
\* completes and is reported and its entry stays registered: the head of a
\* character's queue eventually leaves it, so a queue of n runs eventually
\* holds fewer than n.
C6_QueuedRunEventuallyStarted ==
  \A c \in Characters : \A n \in 1..(MaxQueue + 1) :
    (Len(characterQueues[c]) = n) ~> (Len(characterQueues[c]) < n)

(* ------------------------------- C7 ----------------------------------- *)

\* C7: runs queued for one character are started in the order they were
\* enqueued: a queue grows at its tail only and shrinks at its head only, and
\* the run that leaves the head is the one that is started.
C7_FifoOrder ==
  [][ \A c \in Characters :
        LET q == characterQueues[c]
            q2 == characterQueues'[c]
        IN  \/ q2 = q
            \/ \E e \in EntryIds : q2 = Append(q, [entryId |-> e, characterId |-> c])
            \/ /\ q # << >>
               /\ q2 = Tail(q)
               /\ Head(q).entryId \in jobs =>
                    /\ characterLocks'[c] = Head(q).entryId
                    /\ CopiesIn(Run(Head(q).entryId, "requested", FALSE), runs') >= 1 ]_vars

\* Two different entries are queued for a character and the completion of a
\* run starts the older one and leaves the newer one queued.
C7_Witness ==
  \E c \in Characters : \E r \in BagToSet(runs) :
    LET q == characterQueues[c]
        a == CompletionResult(r)
    IN  /\ Len(q) = 2
        /\ q[1].entryId # q[2].entryId
        /\ a.characterQueues[c] = << q[2] >>
        /\ a.characterLocks[c] = q[1].entryId
        /\ EventsNamed(a.emitted, {"run:requested"}) = << Event("run:requested", q[1].entryId, "") >>

(* ------------------------------- C8 ----------------------------------- *)

\* C8: onRunCompleted for a run of schedule S, with nothing queued for the
\* run's character, decrements the active count of S by one, releases the
\* character if the run's entry holds it, and leaves the active count of
\* every other schedule unchanged.
C8_CompletionTouchesOwnScheduleOnly ==
  \A r \in BagToSet(runs) :
    LET a == CompletionResult(r)
        c == CharacterOfRun(r)
        S == ScheduleOfRun(r)
    IN  (characterQueues[c] = << >> /\ scheduleRunCounts[S] > 0) =>
          /\ a.scheduleRunCounts[S] = scheduleRunCounts[S] - 1
          /\ characterLocks[c] = r.entryId => a.characterLocks[c] = NoId
          /\ \A s \in ScheduleIds \ {S} : a.scheduleRunCounts[s] = scheduleRunCounts[s]

(* ------------------------------- C9 ----------------------------------- *)

\* C9: every trigger produces exactly one of run:skipped, run:queued and
\* run:requested; a kill request is emitted at most once, only together with
\* run:requested, and always when a kill-previous entry reaches a locked
\* character.
C9_ExactlyOneOutcome ==
  \A e \in jobs :
    LET a == TriggerResult(e)
        c == Entries[e].characterId
        outcomes == EventsNamed(a.emitted, {"run:skipped", "run:queued", "run:requested"})
        kills == EventsNamed(a.emitted, {"run:kill-requested"})
        reachesLock == /\ ~isRunSkipped(Cur, Entries[e].scheduleId, e)
                       /\ ~GlobalCeilingReached
                       /\ ~ScheduleCeilingReached(Entries[e].scheduleId)
                       /\ characterLocks[c] # NoId
    IN  /\ Len(outcomes) = 1
        /\ Len(a.emitted) = Len(outcomes) + Len(kills)
        /\ Len(kills) <= 1
        /\ kills # << >> => outcomes[1].name = "run:requested"
        /\ (reachesLock /\ Entries[e].overlapPolicy = "kill-previous") => Len(kills) = 1
        /\ (reachesLock /\ Entries[e].overlapPolicy # "kill-previous") => kills = << >>

\* A kill-previous entry fires on its locked character below every ceiling:
\* one kill request, then the run is requested.
C9_Witness ==
  \E e \in jobs :
    LET a == TriggerResult(e)
    IN  /\ Entries[e].overlapPolicy = "kill-previous"
        /\ characterLocks[Entries[e].characterId] # NoId
        /\ Len(a.emitted) = 2
        /\ a.emitted[1].name = "run:kill-requested"
        /\ a.emitted[2] = Event("run:requested", e, "")

(* ------------------------------- C10 ---------------------------------- *)

C11_SkipPolicyChangesNothing ==
  \A e \in jobs :
    LET a == TriggerResult(e)
        s == Entries[e].scheduleId
    IN  ( /\ Entries[e].overlapPolicy = "skip"
          /\ ~isRunSkipped(Cur, s, e)
          /\ ~GlobalCeilingReached
          /\ ~ScheduleCeilingReached(s)
          /\ characterLocks[Entries[e].characterId] # NoId ) =>
          /\ a.emitted = << Event("run:skipped", e, "character-busy") >>
          /\ a.characterLocks = characterLocks
          /\ a.characterQueues = characterQueues
          /\ a.scheduleRunCounts = scheduleRunCounts
          /\ a.runs = runs
          /\ a.skippedRuns = skippedRuns
          /\ a.signalled = {}

\* A skip entry fires on its locked character, unflagged and below the
\* ceilings, and is skipped as character-busy.
C11_Witness ==
  \E e \in jobs :
    /\ Entries[e].overlapPolicy = "skip"
    /\ ~isRunSkipped(Cur, Entries[e].scheduleId, e)
    /\ ~GlobalCeilingReached
    /\ ~ScheduleCeilingReached(Entries[e].scheduleId)
    /\ characterLocks[Entries[e].characterId] # NoId
    /\ TriggerResult(e).emitted = << Event("run:skipped", e, "character-busy") >>

(* ------------------------------- C12 ---------------------------------- *)

\* C12: a skip flag set for (scheduleId, entryId) is consumed by exactly one
\* trigger, the next one of that entry: that trigger is reported as skipped
\* with reason manual-skip, starts and queues nothing and removes the flag,
\* the trigger of the entry after it is not a manual skip, and the trigger of
\* no other entry consumes the flag.
C12_SkipFlagConsumedByOwnTrigger ==
  \A e \in jobs :
    LET s == Entries[e].scheduleId
        a == TriggerResult(e)
        again == handleTrigger([a EXCEPT !.emitted = << >>], Schedules[s], Entries[e])
    IN  isRunSkipped(Cur, s, e) =>
          /\ a.emitted = << Event("run:skipped", e, "manual-skip") >>
          /\ a.runs = runs
          /\ a.characterQueues = characterQueues
          /\ a.characterLocks = characterLocks
          /\ a.scheduleRunCounts = scheduleRunCounts
          /\ ~isRunSkipped(a, s, e)
          /\ \A i \in 1..Len(again.emitted) : again.emitted[i].reason # "manual-skip"
          /\ \A other \in jobs \ {e} : isRunSkipped(TriggerResult(other), s, e)

(* ------------------------------- C13 ---------------------------------- *)

\* C13: setRunSkipped and clearRunSkipped are idempotent (twice is as once, a
\* flag set twice suppresses one trigger, clearing an unset flag changes
\* nothing) and neither changes whether the flag of another
\* (scheduleId, entryId) pair is set.
C13_SkipApiIdempotentAndLocal ==
  \A e \in EntryIds :
    LET s == Entries[e].scheduleId
        setOnce == setRunSkipped(Cur, s, e)
        setTwice == setRunSkipped(setOnce, s, e)
        clearOnce == clearRunSkipped(Cur, s, e)
        clearTwice == clearRunSkipped(clearOnce, s, e)
    IN  /\ setTwice.skippedRuns = setOnce.skippedRuns
        /\ isRunSkipped(setOnce, s, e)
        /\ ~isRunSkipped(handleTrigger(setTwice, Schedules[s], Entries[e]), s, e)
        /\ clearTwice.skippedRuns = clearOnce.skippedRuns
        /\ ~isRunSkipped(clearOnce, s, e)
        /\ ~isRunSkipped(Cur, s, e) => clearOnce.skippedRuns = skippedRuns
        /\ \A other \in EntryIds \ {e} :
             LET os == Entries[other].scheduleId
             IN  /\ isRunSkipped(setOnce, os, other) = isRunSkipped(Cur, os, other)
                 /\ isRunSkipped(clearOnce, os, other) = isRunSkipped(Cur, os, other)

(* ------------------------------- C14 ---------------------------------- *)

\* C14: a run taken from a resource queue is started or reported: when a
\* completion removes the head of a queue, an event naming the head's entry
\* is emitted.
C14_NoRunDroppedSilently ==
  \A r \in BagToSet(runs) : \A c \in Characters :
    LET a == CompletionResult(r)
        q == characterQueues[c]
    IN  (q # << >> /\ a.characterQueues[c] = Tail(q)) =>
          \E i \in 1..Len(a.emitted) : a.emitted[i].id = Head(q).entryId

(* ====================================================================== *)
(* The supervisor in detail: ProcessManager                               *)
(* ====================================================================== *)

\* The supervisor's state as one value threaded through a handler, with the
\* events the handler emits, the signals it sends and whether it threw.
\* killThrows: run.process.kill('SIGINT') of the handler throws.
SupCur ==
  [ activeRuns |-> activeRuns, timers |-> timers, processes |-> processes,
    configFiles |-> configFiles, now |-> now, history |-> history, emitted |-> << >>, sent |-> << >>,
    threw |-> FALSE, killThrows |-> FALSE ]

SupCommit(p) ==
  /\ activeRuns' = p.activeRuns
  /\ timers' = p.timers
  /\ processes' = p.processes
  /\ configFiles' = p.configFiles
  /\ now' = p.now
  /\ history' = p.history
  /\ UNCHANGED << jobs, characterLocks, characterQueues, scheduleRunCounts, skippedRuns, runs >>
  /\ UNCHANGED engVars

\* setTimeout(callback, delay): the handle of a new pending timer.
setTimeout(p, t) == [p EXCEPT !.timers = @ \cup {t}]

\* clearTimeout(handle): a handle that is unset or has fired is ignored.
clearTimeout(p, t) == [p EXCEPT !.timers = @ \ {t}]

\* run.process.kill(signal): the signal is sent if the process still runs.
\* cause is "timeout" or "stop", the path that sends it.
kill(p, runId, signal, cause) ==
  LET h == p.history[runId]
      at == p.now
  IN  [p EXCEPT !.sent = Append(@, signal),
                !.history[runId] =
         [h EXCEPT !.late = @ \/ h.terminals > 0,
                   !.timeoutSigintAt =
                      IF cause = "timeout" /\ signal = "SIGINT" /\ @ = NoTime THEN at ELSE @,
                   !.timeoutKillAt =
                      IF cause = "timeout" /\ signal = "SIGKILL" /\ @ = NoTime THEN at ELSE @,
                   !.firstSigintAt = IF signal = "SIGINT" /\ @ = NoTime THEN at ELSE @,
                   !.firstKillAt = IF signal = "SIGKILL" /\ @ = NoTime THEN at ELSE @]]

\* forceKillProcess: SIGKILL (taskkill /T /F on Windows).
forceKillProcess(p, runId, cause) == kill(p, runId, "SIGKILL", cause)

\* setupTimeout: arms the timer of maxDurationMs.
setupTimeout(p, runId) ==
  LET run == p.activeRuns[runId]
      t == Timer("timeout", runId, p.now + run.maxDurationMs)
  IN  [setTimeout(p, t) EXCEPT !.activeRuns[runId].timeout = t]

\* run.gracefulTimeout = handle, an assignment to the ProcessRun object; the
\* object of a run that left activeRuns is not looked at again.
SetGracefulTimeout(p, runId, t) ==
  IF p.activeRuns[runId].present
    THEN [p EXCEPT !.activeRuns[runId].gracefulTimeout = t]
    ELSE p

\* onTimeout that sends the graceful signal and arms no hard kill.
onTimeoutNoForce(p, runId) ==
  LET q == kill(p, runId, "SIGINT", "timeout")
  IN  [q EXCEPT !.emitted = Append(@, Event("run:timeout", runId, "graceful"))]

\* The callback of the timer of setupTimeout; its catch calls
\* forceKillProcess.
onTimeout(p, runId) ==
  LET t == Timer("timeout-force", runId, p.now + ForceKillDelayMs)
      q == kill(p, runId, "SIGINT", "timeout")
      r == [q EXCEPT !.emitted = Append(@, Event("run:timeout", runId, "graceful"))]
  IN  IF p.killThrows
        THEN forceKillProcess([p EXCEPT !.killThrows = FALSE], runId, "timeout")
        ELSE SetGracefulTimeout(setTimeout(r, t), runId, t)

\* The callback of the timer armed by onTimeout.
onTimeoutForce(p, runId) ==
  LET q == forceKillProcess(p, runId, "timeout")
  IN  [q EXCEPT !.emitted = Append(@, Event("run:timeout", runId, "force"))]

\* The callback of the timer armed by stopRun.
onStopForce(p, runId) ==
  IF p.activeRuns[runId].present THEN forceKillProcess(p, runId, "stop") ELSE p

(* ------------------------------ logging ------------------------------- *)

\* The characters of the child's output: a letter, a blank and a line feed.
OutputChars == {"x", " ", "\n"}

\* data.toString().split('\n'): the pieces between the line feeds, one more
\* than there are line feeds.
RECURSIVE split(_)
split(data) ==
  IF data = << >> THEN << << >> >>
  ELSE LET rest == split(Tail(data))
       IN  IF Head(data) = "\n" THEN << << >> >> \o rest
           ELSE << << Head(data) >> \o Head(rest) >> \o Tail(rest)

\* line.trim(): the line without the white space around it.
trim(line) ==
  LET inked == { i \in 1..Len(line) : line[i] # " " }
  IN  IF inked = {} THEN << >>
      ELSE SubSeq(line, CHOOSE i \in inked : \A j \in inked : i <= j,
                        CHOOSE i \in inked : \A j \in inked : i >= j)

\* addToLogBuffer that drops the newest line of a full buffer.
RECURSIVE addToLogBufferPop(_, _, _)
addToLogBufferPop(p, runId, lines) ==
  IF lines = << >> THEN p
  ELSE LET q == IF trim(Head(lines)) = << >> THEN p
                ELSE LET n == p.history[runId].logged + 1
                         pushed == Append(p.activeRuns[runId].logBuffer, n)
                     IN  [p EXCEPT !.history[runId].logged = n,
                                   !.activeRuns[runId].logBuffer =
                                      IF Len(pushed) > MAX_LOG_BUFFER_LINES
                                        THEN SubSeq(pushed, 1, Len(pushed) - 1) ELSE pushed]
       IN  addToLogBufferPop(q, runId, Tail(lines))

\* ProcessManager.addToLogBuffer: every line that is not blank is pushed, and
\* the first line is shifted out when the buffer is over its maximum.
RECURSIVE addToLogBuffer(_, _, _)
addToLogBuffer(p, runId, lines) ==
  IF lines = << >> THEN p
  ELSE LET q == IF trim(Head(lines)) = << >> THEN p
                ELSE LET n == p.history[runId].logged + 1
                         pushed == Append(p.activeRuns[runId].logBuffer, n)
                     IN  [p EXCEPT !.history[runId].logged = n,
                                   !.activeRuns[runId].logBuffer =
                                      IF Len(pushed) > MAX_LOG_BUFFER_LINES
                                        THEN Tail(pushed) ELSE pushed]
       IN  addToLogBuffer(q, runId, Tail(lines))

\* The listener of 'data' of the child's stdout and stderr (setupLogging).
onData(p, runId, data) ==
  [addToLogBuffer(p, runId, split(data)) EXCEPT
     !.emitted = Append(@, Event("run:output", runId, ""))]

\* fs.writeFileSync(configFilePath, ...) of startRun.
writeConfigFile(p, runId) == [p EXCEPT !.configFiles = @ \cup {runId}]

\* The cleanup of handleProcessExit and handleProcessError: the file of
\* run.configFilePath is unlinked when it exists.
unlinkConfigFile(p, runId) == [p EXCEPT !.configFiles = @ \ {runId}]

\* ProcessManager.startRun when getConfig() or spawn throws: the file is
\* written, no process and no run exist, and the exception leaves startRun.
pmStartRunThrows(p, runId) ==
  [writeConfigFile(p, runId) EXCEPT !.processes[runId] = "failed", !.threw = TRUE]

\* ProcessManager.startRun from the credentials on: the file is written, the
\* process is spawned, the run is registered, its timeout is armed,
\* run:started is emitted.
pmStartRun(p, runId, maxDurationMs) ==
  LET w == writeConfigFile(p, runId)
      q == [w EXCEPT !.activeRuns[runId] = ProcessRun(TRUE, p.now, maxDurationMs, NoTimer, NoTimer),
                     !.processes[runId] = "running",
                     !.history[runId].startedAt = p.now,
                     !.history[runId].maxDurationMs = maxDurationMs]
  IN  [setupTimeout(q, runId) EXCEPT !.emitted = Append(@, Event("run:started", runId, ""))]

\* stopRun that cancels the timeout but not the pending hard kill.
pmStopRunKeepsHardKill(p, runId) ==
  LET run == p.activeRuns[runId]
  IN  IF ~run.present
        THEN [p EXCEPT !.threw = TRUE, !.history[runId].stopThrew = TRUE]
        ELSE LET c1 == clearTimeout(p, run.timeout)
                 c3 == [c1 EXCEPT !.activeRuns[runId].timeout = NoTimer,
                                  !.history[runId].stopped = TRUE]
                 t == Timer("stop-force", runId, p.now + ForceKillDelayMs)
             IN  SetGracefulTimeout(setTimeout(kill(c3, runId, "SIGINT", "stop"), t), runId, t)

\* stopRun that leaves the timer of maxDurationMs pending.
pmStopRunKeepsTimeout(p, runId) ==
  LET run == p.activeRuns[runId]
  IN  IF ~run.present
        THEN [p EXCEPT !.threw = TRUE, !.history[runId].stopThrew = TRUE]
        ELSE LET c2 == clearTimeout(p, run.gracefulTimeout)
                 c3 == [c2 EXCEPT !.activeRuns[runId].gracefulTimeout = NoTimer,
                                  !.history[runId].stopped = TRUE]
                 t == Timer("stop-force", runId, p.now + ForceKillDelayMs)
             IN  IF p.killThrows
                   THEN forceKillProcess([c3 EXCEPT !.killThrows = FALSE], runId, "stop")
                   ELSE SetGracefulTimeout(setTimeout(kill(c3, runId, "SIGINT", "stop"), t),
                                           runId, t)

\* ProcessManager.stopRun.
pmStopRun(p, runId) ==
  LET run == p.activeRuns[runId]
  IN  IF ~run.present
        THEN [p EXCEPT !.threw = TRUE, !.history[runId].stopThrew = TRUE]
        ELSE LET c1 == clearTimeout(p, run.timeout)
                 c2 == clearTimeout(c1, run.gracefulTimeout)
                 c3 == [c2 EXCEPT !.activeRuns[runId].timeout = NoTimer,
                                  !.activeRuns[runId].gracefulTimeout = NoTimer,
                                  !.history[runId].stopped = TRUE]
                 t == Timer("stop-force", runId, p.now + ForceKillDelayMs)
             IN  IF p.killThrows
                   THEN forceKillProcess([c3 EXCEPT !.killThrows = FALSE], runId, "stop")
                   ELSE SetGracefulTimeout(setTimeout(kill(c3, runId, "SIGINT", "stop"), t),
                                           runId, t)

\* The status of the RunRecord of handleProcessExit.
exitStatus(code, signal, durationMs, maxDurationMs) ==
  IF signal \in {"SIGINT", "SIGKILL", "SIGTERM"}
    THEN IF durationMs >= maxDurationMs THEN "timeout" ELSE "killed"
  ELSE IF code # 0 THEN "error"
  ELSE "success"

\* ProcessManager.handleProcessExit.
handleProcessExit(p, runId, code, signal) ==
  LET run == p.activeRuns[runId]
  IN  IF ~run.present THEN p
      ELSE LET c1 == clearTimeout(p, run.timeout)
               c2 == clearTimeout(c1, run.gracefulTimeout)
               durationMs == p.now - run.startedAt
               status == exitStatus(code, signal, durationMs, run.maxDurationMs)
               h == p.history[runId]
           IN  [unlinkConfigFile(c2, runId) EXCEPT
                          !.activeRuns[runId] = NoRun,
                          !.history[runId] =
                             [h EXCEPT !.terminals = @ + 1, !.exits = @ + 1, !.removed = @ + 1,
                                       !.status = status, !.code = code, !.signal = signal,
                                       !.durationMs = durationMs],
                          !.emitted = Append(@, Event("run:exit", runId, status))]

\* handleProcessError without the early return for a run that is not active.
handleProcessErrorUnguarded(p, runId) ==
  LET run == p.activeRuns[runId]
      c1 == clearTimeout(p, run.timeout)
      c2 == clearTimeout(c1, run.gracefulTimeout)
      h == p.history[runId]
  IN  [unlinkConfigFile(c2, runId) EXCEPT
                 !.activeRuns[runId] = NoRun,
                 !.history[runId] =
                    [h EXCEPT !.terminals = @ + 1, !.removed = @ + 1, !.status = "error"],
                 !.emitted = Append(@, Event("run:error", runId, "error"))]

\* ProcessManager.handleProcessError.
handleProcessError(p, runId) ==
  LET run == p.activeRuns[runId]
  IN  IF ~run.present THEN p
      ELSE LET c1 == clearTimeout(p, run.timeout)
               c2 == clearTimeout(c1, run.gracefulTimeout)
               h == p.history[runId]
           IN  [unlinkConfigFile(c2, runId) EXCEPT
                          !.activeRuns[runId] = NoRun,
                          !.history[runId] =
                             [h EXCEPT !.terminals = @ + 1, !.removed = @ + 1,
                                       !.status = "error",
                                       !.durationMs = p.now - run.startedAt],
                          !.emitted = Append(@, Event("run:error", runId, "error"))]

(* ---------------- the supervisor's handlers as actions ---------------- *)

\* The last instant explored.
MaxClockMs == 40000

\* The step of the clock between two timers.
TickMs == ForceKillDelayMs \div 2

DueTimers == { t \in timers : t.due <= now }

\* The exit notifications of a child: its own exit with a code, or its
\* termination by a signal (sent by the supervisor or by anybody else).
ExitNotifications ==
  { << code, NoSignal >> : code \in ExitCodes } \cup { << NoCode, signal >> : signal \in Signals }

\* The listener of run:requested reaches spawn: ProcessManager.startRun.
SupStartRun(runId, maxDurationMs) ==
  /\ processes[runId] = "none"
  /\ SupCommit(pmStartRun(SupCur, runId, maxDurationMs))

\* ProcessManager.startRun fails after the file is written: the listener of
\* run:requested catches and logs the exception.
SupStartRunThrows(runId) ==
  /\ processes[runId] = "none"
  /\ SupCommit(pmStartRunThrows(SupCur, runId))

\* runs:stop, or the listener of run:kill-requested, for any run id.
SupStopRun(runId) == SupCommit(pmStopRun(SupCur, runId))

\* A due timer fires: it is no longer pending and its callback runs.
TimerFires(t) ==
  /\ t \in DueTimers
  /\ LET p == [SupCur EXCEPT !.timers = @ \ {t}]
     IN  SupCommit(CASE t.kind = "timeout" -> onTimeout(p, t.runId)
                     [] t.kind = "timeout-force" -> onTimeoutForce(p, t.runId)
                     [] t.kind = "stop-force" -> onStopForce(p, t.runId))

\* The child's 'exit' event.
ChildExit(runId, code, signal) ==
  /\ processes[runId] = "running"
  /\ SupCommit(handleProcessExit([SupCur EXCEPT !.processes[runId] = "gone"], runId, code, signal))

\* The child's 'error' event: the process could not be spawned (it is gone)
\* or could not be killed (it still runs); 'exit' may or may not follow, or
\* have come before.
ChildError(runId, stillRuns) ==
  /\ processes[runId] \in {"running", "gone"}
  /\ history[runId].errors = 0
  /\ stillRuns => processes[runId] = "running"
  /\ SupCommit(handleProcessError(
       [SupCur EXCEPT !.processes[runId] = IF stillRuns THEN @ ELSE "gone",
                      !.history[runId].errors = @ + 1], runId))

\* Time passes, up to the next timer: a due timer fires before the clock
\* moves on.
Advance ==
  /\ DueTimers = {}
  /\ now < MaxClockMs
  /\ LET dues == { t.due : t \in timers }
         next == now + TickMs
         target == IF \E d \in dues : d < next
                     THEN CHOOSE d \in dues : \A o \in dues : d <= o
                     ELSE next
     IN  SupCommit([SupCur EXCEPT !.now = target])

NextSup ==
  \/ \E runId \in SupRunIds : \E d \in DurationsMs : SupStartRun(runId, d)
  \/ \E runId \in SupRunIds : SupStartRunThrows(runId)
  \/ \E runId \in SupRunIds : SupStopRun(runId)
  \/ \E t \in timers : TimerFires(t)
  \/ \E runId \in SupRunIds : \E n \in ExitNotifications : ChildExit(runId, n[1], n[2])
  \/ \E runId \in SupRunIds : \E stillRuns \in BOOLEAN : ChildError(runId, stillRuns)
  \/ Advance

SpecSup == Init /\ [][NextSup]_vars

(* ------------------------------- C15 ---------------------------------- *)

\* C15: every run the supervisor registered as active ends with one run:exit
\* event: a run that was removed from activeRuns has had exactly one
\* run:exit emitted for it.
C15_EveryRunEndsWithRunExit ==
  \A runId \in SupRunIds :
    history[runId].removed > 0 => history[runId].exits = 1

(* ------------------------------- C16 ---------------------------------- *)

\* C16: a run enters its terminal state at most once: at most one terminal
\* event (run:exit or run:error) is emitted for it and it is removed from
\* activeRuns at most once, together with that event.
C16_TerminalAtMostOnce ==
  \A runId \in SupRunIds :
    /\ history[runId].terminals <= 1
    /\ history[runId].removed = history[runId].terminals
    /\ activeRuns[runId].present => history[runId].terminals = 0

\* A run that was stopped has delivered both its exit and an error, and one
\* terminal event was emitted.
C16_Witness ==
  \E runId \in SupRunIds :
    /\ history[runId].stopped
    /\ history[runId].exits = 1
    /\ history[runId].errors = 1
    /\ history[runId].terminals = 1

(* ------------------------------- C17 ---------------------------------- *)

C19_StatusOfExit ==
  \A runId \in SupRunIds :
    LET h == history[runId]
    IN  h.exits = 1 =>
          h.status = IF h.signal # NoSignal
                       THEN IF h.durationMs >= h.maxDurationMs THEN "timeout" ELSE "killed"
                     ELSE IF h.code # 0 THEN "error"
                     ELSE "success"

(* ------------------------------- C20 ---------------------------------- *)

\* C20: a stop request for a run that is not active (it has exited, or the
\* supervisor never knew it) completes without an error and changes nothing:
\* no run, no timer, no signal.
C20_StopOfAbsentRunIsNoOp ==
  \A runId \in SupRunIds :
    LET p == pmStopRun(SupCur, runId)
    IN  ~activeRuns[runId].present =>
          /\ ~p.threw
          /\ p.activeRuns = activeRuns
          /\ p.timers = timers
          /\ p.history[runId].late = history[runId].late
          /\ p.emitted = << >>

(* ------------------------------- C21 ---------------------------------- *)

\* C21: a stop request for a running run that was sent no graceful signal
\* yet sends SIGINT at once and arms the hard kill 10 s later; a stop request
\* for a run that is already stopping (after an earlier stop, or after its
\* timeout fired) sends nothing and leaves the pending timers as they are;
\* the hard kill is sent 10 s after the first graceful signal, and not later,
\* while the run is still active.
C21_StopIdempotent ==
  \A runId \in SupRunIds :
    LET h == history[runId]
        p == pmStopRun(SupCur, runId)
        active == activeRuns[runId].present
        stopping == active /\ h.firstSigintAt # NoTime
        hardKillAt == h.firstSigintAt + ForceKillDelayMs
    IN  /\ (active /\ ~stopping) =>
             /\ p.sent = << "SIGINT" >>
             /\ p.timers = { Timer("stop-force", runId, now + ForceKillDelayMs) }
        /\ stopping =>
             /\ p.sent = << >>
             /\ p.timers = timers
        /\ h.firstKillAt # NoTime => h.firstKillAt = hardKillAt
        /\ (stopping /\ now > hardKillAt) => h.firstKillAt # NoTime

(* ------------------------------- C22 ---------------------------------- *)

\* C22: onRunCompleted is called for a run only after the run's record is in
\* the ledger, and completions are handled one at a time: every step that
\* releases a lock, takes a run from a queue or lowers an active count is
\* the onRunCompleted of one run whose record has been appended.
C22_CompletionAfterRecord ==
  [][ ( \/ \E c \in Characters :
             \/ Len(characterQueues'[c]) < Len(characterQueues[c])
             \/ characterLocks[c] # NoId /\ characterLocks'[c] = NoId
        \/ \E s \in ScheduleIds : scheduleRunCounts'[s] < scheduleRunCounts[s] ) =>
        \E r \in BagToSet(runs) :
          LET a == CompletionResult(r)
          IN  /\ r.st = "recorded"
              /\ characterLocks' = a.characterLocks
              /\ characterQueues' = a.characterQueues
              /\ scheduleRunCounts' = a.scheduleRunCounts
              /\ runs' = a.runs ]_vars

\* Two runs have exited; the record of one is appended and its completion
\* releases its character and starts the queued run, while the other still
\* waits for its record.
C22_Witness ==
  \E r \in BagToSet(runs) : \E o \in BagToSet(runs) :
    LET a == CompletionResult(r)
        c == CharacterOfRun(r)
    IN  /\ r.st = "recorded"
        /\ o.st = "exited"
        /\ characterLocks[c] = r.entryId
        /\ characterQueues[c] # << >>
        /\ a.characterQueues[c] = Tail(characterQueues[c])
        /\ CopiesIn(o, a.runs) >= 1

(* ====================================================================== *)
(* The trigger engine in detail: registerSchedules, createJob, the timers *)
(* ====================================================================== *)

\* The state as one value threaded through a handler of the engine: the
\* arbiter's, with the timers, the clock, the jobs and the engine's history.
EngCur ==
  [ jobs |-> jobs,
    characterLocks |-> characterLocks,
    characterQueues |-> characterQueues,
    scheduleRunCounts |-> scheduleRunCounts,
    skippedRuns |-> skippedRuns,
    runs |-> runs,
    emitted |-> << >>,
    signalled |-> {},
    faulty |-> FALSE,
    thrown |-> FALSE,
    timers |-> timers,
    now |-> now,
    scheduledJobs |-> scheduledJobs,
    engine |-> engine ]

EngCommit(a) ==
  /\ BagCardinality(a.runs) <= MaxRuns
  /\ \A c \in Characters : Len(a.characterQueues[c]) <= MaxQueue
  /\ jobs' = a.jobs
  /\ characterLocks' = a.characterLocks
  /\ characterQueues' = a.characterQueues
  /\ scheduleRunCounts' = a.scheduleRunCounts
  /\ skippedRuns' = a.skippedRuns
  /\ runs' = a.runs
  /\ timers' = a.timers
  /\ now' = a.now
  /\ scheduledJobs' = a.scheduledJobs
  /\ engine' = a.engine
  /\ UNCHANGED << activeRuns, processes, configFiles, history >>

\* The largest delay of setTimeout and setInterval: 2^31 - 1 ms, in minutes.
MaxTimerDelay == 35791

\* The delay setTimeout and setInterval use: a delay above 2^31 - 1 ms, or
\* below 1 ms, is set to 1 ms (less than a minute).
timerDelay(delay) == IF delay > MaxTimerDelay \/ delay < 1 THEN 0 ELSE delay

\* calculateInterval, in minutes.
calculateInterval(unit, n) ==
  CASE unit = "minutes" -> n
    [] unit = "hours" -> n * 60

\* while (nextExecutionTime <= now) nextExecutionTime += intervalMs.
RECURSIVE nextExecutionTime(_, _, _)
nextExecutionTime(time, intervalMs, at) ==
  IF time <= at THEN nextExecutionTime(time + intervalMs, intervalMs, at) ELSE time

\* node-cron accepts the expression.
validCron(expression) == expression = HourlyExpression

\* The next time the cron expression matches, after at.
nextCronTime(at) == ((at \div CronPeriod) + 1) * CronPeriod

\* The timer is armed for the entry: the entry's history starts anew.
arm(a, t) ==
  [a EXCEPT !.timers = @ \cup {t},
            !.engine.entries[t.entry] =
               [NoLog EXCEPT !.regAt = a.now, !.stale = a.engine.entries[t.entry].stale,
                             !.unarmed = a.engine.entries[t.entry].unarmed,
                             !.uncaught = a.engine.entries[t.entry].uncaught]]

\* What createJob returns: the state, the handle and the type of the job
\* (NoJobHandle for null), or thrown.
Created(a, job, type, thrown) == [state |-> a, job |-> job, type |-> type, thrown |-> thrown]

\* createJob without the test of the one-shot target against the present.
createJobCatchUp(a, k) ==
  LET cadence == TimedEntries[k].cadence
  IN  CASE cadence.type = "cron" ->
             IF validCron(cadence.expression)
               THEN Created(arm(a, JobTimer("cron", k, nextCronTime(a.now), CronPeriod, FALSE)),
                            JobHandle("cron", k, FALSE), "cron", FALSE)
               ELSE Created(a, NoJobHandle, "none", TRUE)
        [] cadence.type = "every" ->
             LET intervalMs == calculateInterval(cadence.unit, cadence.n)
             IN  IF cadence.startTimeISO # NoTime
                   THEN LET firstDelay ==
                              nextExecutionTime(cadence.startTimeISO, intervalMs, a.now) - a.now
                        IN  Created(arm(a, JobTimer("first-fire", k, a.now + timerDelay(firstDelay),
                                                    0, FALSE)),
                                    JobHandle("first-fire", k, FALSE), "interval", FALSE)
                   ELSE Created(arm(a, JobTimer("interval", k, a.now + timerDelay(intervalMs),
                                                timerDelay(intervalMs), FALSE)),
                                JobHandle("interval", k, FALSE), "interval", FALSE)
        [] cadence.type = "once" ->
             Created(arm(a, JobTimer("once", k, a.now + timerDelay(cadence.atISO - a.now),
                                     0, FALSE)),
                     JobHandle("once", k, FALSE), "timeout", FALSE)
        [] OTHER -> Created(a, NoJobHandle, "none", TRUE)

createJob(a, k) ==
  LET cadence == TimedEntries[k].cadence
  IN  CASE cadence.type = "cron" ->
             IF validCron(cadence.expression)
               THEN Created(arm(a, JobTimer("cron", k, nextCronTime(a.now), CronPeriod, FALSE)),
                            JobHandle("cron", k, FALSE), "cron", FALSE)
               ELSE Created(a, NoJobHandle, "none", TRUE)
        [] cadence.type = "every" ->
             LET intervalMs == calculateInterval(cadence.unit, cadence.n)
             IN  IF cadence.startTimeISO # NoTime
                   THEN LET firstDelay ==
                              nextExecutionTime(cadence.startTimeISO, intervalMs, a.now) - a.now
                        IN  Created(arm(a, JobTimer("first-fire", k, a.now + timerDelay(firstDelay),
                                                    0, FALSE)),
                                    JobHandle("first-fire", k, FALSE), "interval", FALSE)
                   ELSE Created(arm(a, JobTimer("interval", k, a.now + timerDelay(intervalMs),
                                                timerDelay(intervalMs), FALSE)),
                                JobHandle("interval", k, FALSE), "interval", FALSE)
        [] cadence.type = "once" ->
             IF cadence.atISO <= a.now
               THEN Created(a, NoJobHandle, "none", FALSE)
               ELSE Created(arm(a, JobTimer("once", k, a.now + timerDelay(cadence.atISO - a.now),
                                            0, FALSE)),
                            JobHandle("once", k, FALSE), "timeout", FALSE)
        [] OTHER -> Created(a, NoJobHandle, "none", TRUE)

\* The nextRunAt that registerEntry stores with the job.
firstNextRunAt(a, k, type) ==
  LET cadence == TimedEntries[k].cadence
  IN  IF type = "interval" /\ cadence.type = "every"
        THEN LET intervalMs == calculateInterval(cadence.unit, cadence.n)
             IN  IF cadence.startTimeISO # NoTime
                   THEN nextExecutionTime(cadence.startTimeISO, intervalMs, a.now)
                   ELSE a.now + intervalMs
      ELSE IF type = "timeout" /\ cadence.type = "once" THEN cadence.atISO
      ELSE NoTime

\* registerEntry without its try and catch: the exception of createJob
\* leaves it.
registerEntryNoCatch(a, k) ==
  LET entry == TimedEntries[k]
      c == createJob(a, k)
  IN  IF c.thrown
        THEN [c.state EXCEPT !.thrown = TRUE]
      ELSE IF c.job = NoJobHandle
        THEN c.state
      ELSE [c.state EXCEPT
              !.jobs = @ \cup {entry.id},
              !.scheduledJobs[entry.id] =
                 ScheduledJob(TRUE, k, c.job, c.type, firstNextRunAt(a, k, c.type))]

registerEntry(a, k) ==
  LET entry == TimedEntries[k]
      c == createJob(a, k)
  IN  IF c.thrown
        THEN emit(c.state, Event("entry:error", entry.id, ""))
      ELSE IF c.job = NoJobHandle
        THEN c.state
      ELSE [c.state EXCEPT
              !.jobs = @ \cup {entry.id},
              !.scheduledJobs[entry.id] =
                 ScheduledJob(TRUE, k, c.job, c.type, firstNextRunAt(a, k, c.type))]

\* for (const entry of schedule.entries) if (entry.enabled) registerEntry.
RECURSIVE registerSchedule(_, _, _)
registerSchedule(a, entries, enabledEntries) ==
  IF entries = << >> \/ a.thrown THEN a
  ELSE LET b == IF Head(entries) \in enabledEntries THEN registerEntry(a, Head(entries)) ELSE a
       IN  registerSchedule(b, Tail(entries), enabledEntries)

\* clearJob: stop(), clearInterval or clearTimeout of the handle the job holds.
clearJob(a, scheduledJob) ==
  [a EXCEPT !.timers = { t \in @ : ~( /\ t.old = scheduledJob.job.old
                                       /\ t.kind = scheduledJob.job.kind
                                       /\ t.entry = scheduledJob.job.entry ) }]

RECURSIVE clearJobs(_, _)
clearJobs(a, ids) ==
  IF ids = {} THEN a
  ELSE LET id == CHOOSE x \in ids : TRUE
       IN  clearJobs(clearJob(a, a.scheduledJobs[id]), ids \ {id})

\* Scheduler.clearAllJobs, with the timers.  The timers that it leaves
\* pending are marked old, and of no entry is it remembered that it is armed.
engClearAllJobs(a) ==
  LET b == clearJobs(a, a.jobs)
  IN  [b EXCEPT !.jobs = {},
                !.scheduledJobs = [id \in TimedEntryIds |-> NoJob],
                !.scheduleRunCounts = [s \in ScheduleIds |-> 0],
                !.timers = { [t EXCEPT !.old = TRUE] : t \in @ },
                !.engine.registrations = @ + 1,
                !.engine.entries = [k \in DOMAIN TimedEntries |->
                              [NoLog EXCEPT !.stale = b.engine.entries[k].stale,
                                            !.unarmed = b.engine.entries[k].unarmed,
                                            !.uncaught = b.engine.entries[k].uncaught]]]

RECURSIVE registerEach(_, _, _, _)
registerEach(a, schedules, enabled, enabledEntries) ==
  IF schedules = << >> \/ a.thrown THEN a
  ELSE LET s == Head(schedules)
           b == IF enabled[s] THEN registerSchedule(a, EntriesInOrder[s], enabledEntries) ELSE a
       IN  registerEach(b, Tail(schedules), enabled, enabledEntries)

\* Scheduler.registerSchedules, with the timers.
engRegisterSchedules(a, enabled, enabledEntries) ==
  registerEach(engClearAllJobs(a), SchedulesInOrder, enabled, enabledEntries)

(* ----------------------- the callbacks of the timers ------------------ *)

\* handleTrigger, its first lines: job.lastRunAt, and job.nextRunAt of an
\* interval job, of the job that Scheduler.jobs holds under the entry's id.
trackTrigger(a, k) ==
  LET entry == TimedEntries[k]
      job == a.scheduledJobs[entry.id]
  IN  IF job.present /\ job.type = "interval" /\ entry.cadence.type = "every"
        THEN [a EXCEPT !.scheduledJobs[entry.id].nextRunAt =
                          a.now + calculateInterval(entry.cadence.unit, entry.cadence.n)]
        ELSE a

\* What the engine's history keeps of a trigger of entry k, dispatched by a
\* timer whose mark is old.
logTrigger(a, k, old) ==
  LET log == a.engine.entries[k]
      recurring == TimedEntries[k].cadence.type \in {"cron", "every"}
      armed == \E t \in a.timers : t.entry = k /\ t.old = old
  IN  IF old THEN [a EXCEPT !.engine.entries[k].stale = TRUE]
      ELSE [a EXCEPT !.engine.entries[k] =
              [log EXCEPT !.fires = @ + 1,
                          !.firstFireAt = IF @ = NoTime THEN a.now ELSE @,
                          !.prevFireAt = log.lastFireAt,
                          !.lastFireAt = a.now,
                          !.unarmed = @ \/ (recurring /\ ~armed)]]

\* triggerRun: the closure of createJob that calls handleTrigger.
triggerRun(a, k, old) ==
  LET entry == TimedEntries[k]
  IN  handleTrigger(trackTrigger(logTrigger(a, k, old), k), Schedules[entry.scheduleId], entry)

\* An exception that leaves the callback of a timer.
uncaught(a, k) ==
  IF a.thrown THEN [a EXCEPT !.engine.entries[k].uncaught = TRUE, !.thrown = FALSE] ELSE a

\* The callback of the first-fire timeout of an interval with a start time:
\* triggerRun(), then setInterval, then the job's handle is replaced.
onFirstFire(a, t) ==
  LET k == t.entry
      entry == TimedEntries[k]
      intervalMs == calculateInterval(entry.cadence.unit, entry.cadence.n)
      b == triggerRun(a, k, t.old)
      intervalId == JobTimer("interval", k, b.now + timerDelay(intervalMs),
                             timerDelay(intervalMs), t.old)
      c == [b EXCEPT !.timers = @ \cup {intervalId}]
  IN  IF b.thrown THEN uncaught(b, k)
      ELSE IF c.scheduledJobs[entry.id].present
        THEN [c EXCEPT !.scheduledJobs[entry.id].job = JobHandle("interval", k, t.old)]
      ELSE c

\* The callback of setInterval, of setTimeout(triggerRun, delay) and of the
\* cron task.
onJobTimer(a, t) == uncaught(triggerRun(a, t.entry, t.old), t.entry)

(* ------------------- the engine's handlers as actions ----------------- *)

\* The last minute explored.
MaxEngineClock == 150

\* The calls of registerSchedules explored.
MaxRegistrations == 2

\* The enabled flags of the schedules in a call of registerSchedules.
EnabledSchedules == { [s \in ScheduleIds |-> TRUE], [s \in ScheduleIds |-> s # "s1"] }

\* The step of the clock between two timers, in minutes.
TickMinutes == 15

\* registerSchedules, from initialize, schedules:save and schedules:toggle.
EngRegisterSchedules ==
  /\ engine.registrations < MaxRegistrations
  /\ \E enabled \in EnabledSchedules : \E enabledEntries \in EnabledEntrySets :
       EngCommit(engRegisterSchedules(EngCur, enabled, enabledEntries))

\* A due timer of a job expires.  A timer that repeats is armed again by the
\* event loop, for its period after this expiry, whatever its callback does;
\* a timeout is no longer pending.  faulty: a listener of the first event
\* that the callback emits throws.
JobTimerFires(t, faulty) ==
  /\ t \in DueTimers
  /\ LET rest == IF t.kind \in {"interval", "cron"}
                   THEN (timers \ {t}) \cup {[t EXCEPT !.due = now + t.period]}
                   ELSE timers \ {t}
         a == [EngCur EXCEPT !.timers = rest, !.faulty = faulty]
         b == IF t.kind = "first-fire" THEN onFirstFire(a, t) ELSE onJobTimer(a, t)
     IN  EngCommit([b EXCEPT !.faulty = FALSE])

\* skip:set for a timed entry.
SkipTimedEntry(k) ==
  EngCommit(setRunSkipped(EngCur, TimedEntries[k].scheduleId, TimedEntries[k].id))

\* Time passes, up to the next timer.
EngAdvance ==
  /\ DueTimers = {}
  /\ now < MaxEngineClock
  /\ LET dues == { t.due : t \in timers }
         next == now + TickMinutes
         target == IF \E d \in dues : d < next
                     THEN CHOOSE d \in dues : \A o \in dues : d <= o
                     ELSE next
     IN  EngCommit([EngCur EXCEPT !.now = target])

NextEng ==
  \/ EngRegisterSchedules
  \/ \E t \in timers : \E faulty \in BOOLEAN : JobTimerFires(t, faulty)
  \/ \E k \in {1} : SkipTimedEntry(k)
  \/ \E r \in BagToSet(runs) : OnRunCompleted(r)
  \/ EngAdvance

SpecEng == Init /\ [][NextEng]_vars

(* ------------------------------- C23 ---------------------------------- *)

\* An entry that createJob arms at the time at: its cadence registers, and a
\* one-shot target is still ahead.
WellFormed(k, at) ==
  LET cadence == TimedEntries[k].cadence
  IN  CASE cadence.type = "cron" -> validCron(cadence.expression)
        [] cadence.type = "every" -> TRUE
        [] cadence.type = "once" -> cadence.atISO > at
        [] OTHER -> FALSE

\* The entries that a call of registerSchedules is to arm.
ToArm(enabled, enabledEntries, at) ==
  { k \in enabledEntries : enabled[TimedEntries[k].scheduleId] /\ WellFormed(k, at) }

\* C23: after registerSchedules(S) the jobs, and the timers armed by this
\* call, are those of the enabled, well-formed entries of the enabled
\* schedules of S, one timer for each, and no timer that an earlier call
\* armed ever fires a trigger again.
C23_RegistrationReplacesJobs ==
  /\ \A enabled \in EnabledSchedules : \A enabledEntries \in EnabledEntrySets :
       LET a == engRegisterSchedules(EngCur, enabled, enabledEntries)
           expected == ToArm(enabled, enabledEntries, now)
           armed == { t \in a.timers : ~t.old }
       IN  /\ a.jobs = { TimedEntries[k].id : k \in expected }
           /\ { t.entry : t \in armed } = expected
           /\ Cardinality(armed) = Cardinality(expected)
  /\ \A k \in DOMAIN TimedEntries : ~engine.entries[k].stale

(* ------------------------------- C24 ---------------------------------- *)

\* C24: whenever the trigger of a recurring entry (cron or every) is
\* dispatched to handleTrigger, a timer is armed for the entry's next fire.
C24_NextFireArmedAtDispatch ==
  \A k \in DOMAIN TimedEntries :
    TimedEntries[k].cadence.type \in {"cron", "every"} => ~engine.entries[k].unarmed

(* ------------------------------- C25 ---------------------------------- *)

\* C25: a failure while a trigger is handled (a listener of the event that
\* reports the skipped, queued or requested run throws) does not leave
\* handleTrigger: it is reported by trigger:error, the last event emitted,
\* and no exception ever reaches the callback of a timer.
C25_TriggerFailureCaught ==
  /\ \A k \in DOMAIN TimedEntries :
       LET a == triggerRun([EngCur EXCEPT !.faulty = TRUE], k, FALSE)
       IN  /\ ~a.thrown
           /\ ~a.faulty => a.emitted[Len(a.emitted)].name = "trigger:error"
  /\ \A k \in DOMAIN TimedEntries : ~engine.entries[k].uncaught

(* ------------------------------- C26 ---------------------------------- *)

\* The entries whose cadence createJob rejects: a cron expression that
\* node-cron does not accept, or a type that is none of cron, every, once.
Malformed(k) ==
  LET cadence == TimedEntries[k].cadence
  IN  \/ cadence.type = "cron" /\ ~validCron(cadence.expression)
      \/ cadence.type \notin {"cron", "every", "once"}

\* C26: in a call of registerSchedules every enabled entry (of an enabled
\* schedule) whose cadence cannot be registered gets no timer and no job and
\* is reported by one entry:error event, and every other enabled,
\* well-formed entry of the call is armed.
C26_MalformedEntryIsolated ==
  \A enabled \in EnabledSchedules : \A enabledEntries \in EnabledEntrySets :
    LET a == engRegisterSchedules(EngCur, enabled, enabledEntries)
        called == { k \in enabledEntries : enabled[TimedEntries[k].scheduleId] }
        armed == { t.entry : t \in { x \in a.timers : ~x.old } }
        errors == EventsNamed(a.emitted, {"entry:error"})
    IN  /\ ~a.thrown
        /\ \A k \in called :
             Malformed(k) =>
               /\ k \notin armed
               /\ ~a.scheduledJobs[TimedEntries[k].id].present
               /\ \E i \in 1..Len(errors) : errors[i].id = TimedEntries[k].id
        /\ Len(errors) = Cardinality({ k \in called : Malformed(k) })
        /\ \A k \in called : WellFormed(k, now) => k \in armed

\* A call registered a one-shot entry and a cron entry together with the
\* two entries whose cadence is rejected, which have no job and no timer.
C26_Witness ==
  /\ engine.entries[3].regAt = now
  /\ engine.entries[4].regAt = now
  /\ scheduledJobs[TimedEntries[3].id].present
  /\ scheduledJobs[TimedEntries[4].id].present
  /\ \A k \in {5, 6} :
       /\ Malformed(k)
       /\ ~scheduledJobs[TimedEntries[k].id].present
       /\ \A t \in timers : t.entry # k

(* ------------------------------- C27 ---------------------------------- *)

\* The entries with a one-shot cadence.
OnceEntries == { k \in DOMAIN TimedEntries : TimedEntries[k].cadence.type = "once" }

\* C27: a call of registerSchedules at or after the target time of a
\* one-shot entry leaves the entry without job and timer; whenever a
\* one-shot entry has a job or a pending timer, or has triggered since the
\* last call, that call armed it before its target time; and since the last
\* call it has triggered at most once, never by a timer of an earlier call.
C27_OneShotOnceOrNever ==
  \A k \in OnceEntries :
    LET entry == TimedEntries[k]
        log == engine.entries[k]
        pending == \E t \in timers : t.entry = k
        aheadAtCall == log.regAt # NoTime /\ log.regAt < entry.cadence.atISO
    IN  /\ log.fires <= 1
        /\ ~log.stale
        /\ log.fires = 1 => aheadAtCall /\ ~pending
        /\ pending \/ scheduledJobs[entry.id].entry = k => aheadAtCall
        /\ entry.cadence.atISO <= now =>
             \A enabled \in EnabledSchedules : \A enabledEntries \in EnabledEntrySets :
               LET a == engRegisterSchedules(EngCur, enabled, enabledEntries)
               IN  /\ \A t \in a.timers : t.entry # k
                   /\ ~a.scheduledJobs[entry.id].present
                   /\ a.engine.entries[k].fires = 0

\* The one-shot entry has triggered once since the last call, time has
\* passed since, and registerSchedules may be called again, after the target.
C27_Witness ==
  /\ 3 \in OnceEntries
  /\ engine.entries[3].fires = 1
  /\ engine.entries[3].lastFireAt < now
  /\ TimedEntries[3].cadence.atISO < now
  /\ engine.registrations < MaxRegistrations

(* ------------------------------- C28 ---------------------------------- *)

\* The interval entries with a start time.
AnchoredEntries ==
  { k \in DOMAIN TimedEntries :
      TimedEntries[k].cadence.type = "every" /\ TimedEntries[k].cadence.startTimeISO # NoTime }

\* C28: of an interval entry with anchor A and interval I that the last
\* registerSchedules armed at time regAt, the first fire is at A when
\* A > regAt and otherwise at the first A + k*I after regAt, every later
\* fire is I after the previous one, and every fire is on the grid A + m*I.
C28_AnchoredIntervalOnGrid ==
  \A k \in AnchoredEntries :
    LET cadence == TimedEntries[k].cadence
        A == cadence.startTimeISO
        I == calculateInterval(cadence.unit, cadence.n)
        log == engine.entries[k]
        first == IF A > log.regAt THEN A
                 ELSE A + (((log.regAt - A) \div I) + 1) * I
    IN  /\ log.firstFireAt # NoTime => log.firstFireAt = first
        /\ log.prevFireAt # NoTime => log.lastFireAt = log.prevFireAt + I
        /\ log.lastFireAt # NoTime => (log.lastFireAt - A) % I = 0

(* ------------------------------- C29 ---------------------------------- *)

\* C29: the temporary credential file of a run exists only while the run is
\* active.
C29_ConfigFileGoneWithRun ==
  \A runId \in SupRunIds : runId \in configFiles => activeRuns[runId].present

(* ------------------------------- C30 ---------------------------------- *)

\* The most characters of a chunk of output.
MaxChunkLen == 3

\* The chunks of output: the buffers that 'data' delivers.
Chunks == UNION { [1..n -> OutputChars] : n \in 1..MaxChunkLen }

\* The most lines followed.
MaxLoggedLines == 1003

\* The child writes to stdout or stderr: 'data' delivers a chunk.
ChildOutput(runId, data) ==
  /\ activeRuns[runId].present
  /\ processes[runId] = "running"
  /\ history[runId].logged < MaxLoggedLines
  /\ SupCommit(onData(SupCur, runId, data))

NextLog ==
  \/ \E runId \in SupRunIds : \E d \in DurationsMs : SupStartRun(runId, d)
  \/ \E runId \in SupRunIds : \E data \in Chunks : ChildOutput(runId, data)
  \/ \E runId \in SupRunIds : \E n \in ExitNotifications : ChildExit(runId, n[1], n[2])

SpecLog == Init /\ [][NextLog]_vars

\* C30: the log buffer of an active run never holds more than
\* MAX_LOG_BUFFER_LINES lines, and it holds the most recent of the lines that
\* were not blank, as many as arrived up to that maximum, in the order of
\* their arrival; a chunk with blank lines only changes nothing.
C30_LogBufferKeepsNewest ==
  \A runId \in SupRunIds :
    activeRuns[runId].present =>
      LET logBuffer == activeRuns[runId].logBuffer
          logged == history[runId].logged
          kept == IF logged > MAX_LOG_BUFFER_LINES THEN MAX_LOG_BUFFER_LINES ELSE logged
      IN  /\ Len(logBuffer) <= MAX_LOG_BUFFER_LINES
          /\ Len(logBuffer) = kept
          /\ \A i \in 1..kept : logBuffer[i] = logged - kept + i
          /\ \A data \in Chunks :
               LET p == onData(SupCur, runId, data)
                   lines == split(data)
                   text == { i \in 1..Len(lines) : \E j \in 1..Len(lines[i]) : lines[i][j] = "x" }
               IN  /\ p.history[runId].logged = logged + Cardinality(text)
                   /\ text = {} => p.activeRuns[runId].logBuffer = logBuffer

\* More lines than the buffer keeps have arrived: the buffer is full, its
\* first line is the oldest of the last MAX_LOG_BUFFER_LINES lines.
C30_Witness ==
  \E runId \in SupRunIds :
    /\ activeRuns[runId].present
    /\ history[runId].logged > MAX_LOG_BUFFER_LINES + 1
    /\ Len(activeRuns[runId].logBuffer) = MAX_LOG_BUFFER_LINES
    /\ activeRuns[runId].logBuffer[1] = history[runId].logged - MAX_LOG_BUFFER_LINES + 1

(* ------------------------------- C31 ---------------------------------- *)

\* The timer of setupTimeout fires and run.process.kill('SIGINT') throws.
TimerFiresKillThrows(t) ==
  /\ t \in DueTimers
  /\ t.kind = "timeout"
  /\ SupCommit(onTimeout([SupCur EXCEPT !.timers = @ \ {t}, !.killThrows = TRUE], t.runId))

\* stopRun for an active run, and run.process.kill('SIGINT') throws.
SupStopRunKillThrows(runId) ==
  /\ activeRuns[runId].present
  /\ SupCommit(pmStopRun([SupCur EXCEPT !.killThrows = TRUE], runId))

NextSupFaulty ==
  \/ NextSup
  \/ \E t \in timers : TimerFiresKillThrows(t)
  \/ \E runId \in SupRunIds : SupStopRunKillThrows(runId)

\* The supervisor with a kill that may throw.
SpecSupFaulty == Init /\ [][NextSupFaulty]_vars

\* C31: the hard kill of a run is sent only after a graceful signal was sent
\* to it, and no earlier than ForceKillDelayMs after the first graceful
\* signal.
C31_GracefulBeforeForce ==
  \A runId \in SupRunIds :
    LET h == history[runId]
    IN  h.firstKillAt # NoTime =>
          /\ h.firstSigintAt # NoTime
          /\ h.firstKillAt >= h.firstSigintAt + ForceKillDelayMs

(* ------------------------------- C32 ---------------------------------- *)

\* C32: when onRunCompleted is called for a run whose entry holds the lock
\* of its character while the active runs are as many as the global limit
\* and the queue of that character is not empty (its head having a job), the
\* head leaves the queue and run:requested is emitted for it in that call.
C32_CompletionFreesCeiling ==
  \A r \in BagToSet(runs) :
    LET c == CharacterOfRun(r)
        q == characterQueues[c]
        a == CompletionResult(r)
    IN  ( /\ characterLocks[c] = r.entryId
          /\ getTotalActiveRuns(Cur) = GlobalConcurrencyLimit
          /\ q # << >>
          /\ Head(q).entryId \in jobs ) =>
            /\ a.characterQueues[c] = Tail(q)
            /\ EventsNamed(a.emitted, {"run:requested"}) =
                 << Event("run:requested", Head(q).entryId, "") >>

(* ------------------------------- C33 ---------------------------------- *)

\* C33: the active count of every schedule is the number of the runs that
\* the arbiter started for the schedule and that are not yet reported
\* complete.
C33_CountsMatchLiveRuns ==
  \A s \in ScheduleIds :
    scheduleRunCounts[s] = NumRuns(runs, { r \in AllRuns : ScheduleOfRun(r) = s })

(* ------------------------------- C34 ---------------------------------- *)

\* C34: when a run that a kill-previous trigger of its own entry displaced
\* has exited and is reported complete while the newer run of the entry is live and the
\* entry holds the lock of the character, the lock stays with the entry.
C34_LockReleasedByLatestHolder ==
  \A r \in BagToSet(runs) :
    LET c == CharacterOfRun(r)
        newer == { x \in BagToSet(runs) : x.entryId = r.entryId /\ ~x.displaced }
    IN  (r.st = "recorded" /\ r.displaced /\ newer # {} /\ characterLocks[c] = r.entryId) =>
          CompletionResult(r).characterLocks[c] = r.entryId

(* ------------------------------- C35 ---------------------------------- *)

\* C35: a run that the arbiter started ends for the host only by a call of
\* onRunCompleted for it: every step after which fewer runs are in progress
\* is a step of onRunCompleted for one of them.
C35_EveryRunReportedComplete ==
  [][ BagCardinality(runs') < BagCardinality(runs) =>
        \E r \in BagToSet(runs) :
          LET a == CompletionResult(r)
          IN  /\ runs' = a.runs
              /\ characterLocks' = a.characterLocks
              /\ characterQueues' = a.characterQueues
              /\ scheduleRunCounts' = a.scheduleRunCounts ]_vars

(* ------------------------------- C36 ---------------------------------- *)

\* The run id of a test run: that of no run the arbiter requested.
TestRunId == Len(Entries) + 1 + 2 * Cardinality(RunStates) * Len(Entries)

\* A test run of entry e (runs:test calls ProcessManager.startRun, not the
\* arbiter) has exited and its record is appended: the listener of run:exit
\* calls onRunCompleted with the record's entryId.
TestRunCompleted(e) == Commit(onRunCompleted(Cur, TestRunId, e)) /\ HostBound

NextTest ==
  \/ NextHost
  \/ \E e \in EntryIds : TestRunCompleted(e)

\* The host with test runs.
SpecTest == InitHost /\ [][NextTest]_vars

\* C36: the exit of a test run of any entry leaves the lock map, the queues
\* and the active counts as they are.
C36_TestRunLeavesArbiterAlone ==
  \A e \in EntryIds :
    LET a == onRunCompleted(Cur, TestRunId, e)
    IN  /\ a.characterLocks = characterLocks
        /\ a.characterQueues = characterQueues
        /\ a.scheduleRunCounts = scheduleRunCounts
        /\ a.emitted = << >>

(* ------------------------------- C37 ---------------------------------- *)

\* C37: registerSchedules, whatever schedules are enabled, and clearAllJobs
\* leave the character locks, the queues and the skip flags as they are, and
\* emit nothing.
C37_RegistrationKeepsLocksQueuesFlags ==
  LET Kept(a) == /\ a.characterLocks = characterLocks
                 /\ a.characterQueues = characterQueues
                 /\ a.skippedRuns = skippedRuns
                 /\ a.emitted = << >>
  IN  /\ Kept(clearAllJobs(Cur))
      /\ \A enabled \in [ScheduleIds -> BOOLEAN] : Kept(registerSchedules(Cur, enabled))
      /\ \A enabled \in EnabledSchedules : \A enabledEntries \in EnabledEntrySets :
           LET a == engRegisterSchedules(EngCur, enabled, enabledEntries)
           IN  /\ a.characterLocks = characterLocks
               /\ a.characterQueues = characterQueues
               /\ a.skippedRuns = skippedRuns

\* clearAllJobs was called while a character was locked, a run was queued
\* and a skip flag was set: no job is left and all three are in place.
C37_Witness ==
  /\ jobs = {}
  /\ \E c \in Characters : characterLocks[c] # NoId /\ characterQueues[c] # << >>
  /\ skippedRuns # {}
  /\ \A s \in ScheduleIds : scheduleRunCounts[s] = 0

(* ------------------------------- C38 ---------------------------------- *)

\* C38: of every run at most one timer is pending: the timer of
\* maxDurationMs or one hard-kill timer, never two.
C38_OneKillTimerPending ==
  \A runId \in SupRunIds :
    Cardinality({ t \in timers : t.runId = runId }) <= 1

\* The timeout of a run fired, and a stop request that came later replaced
\* the hard-kill timer the timeout had armed: one timer is pending.
C38_Witness ==
  \E runId \in SupRunIds :
    /\ activeRuns[runId].present
    /\ history[runId].timeoutSigintAt # NoTime
    /\ history[runId].stopped
    /\ \E t \in timers :
         /\ t = Timer("stop-force", runId, t.due)
         /\ t.due > history[runId].timeoutSigintAt + ForceKillDelayMs
         /\ timers = {t}

====
